---- MODULE Spec2Model ----
(***************************************************************************)
(* The name-transliteration resolver of the invitation-card application:   *)
(* transliterate_to_gujarati and the signal-based time_limit context       *)
(* manager of src/app.py.                                                  *)
(*                                                                         *)
(* A text is a sequence of Unicode code points (the values of ord(c)), so  *)
(* the range tests, the case folding, str.strip, str.replace and the       *)
(* regular expressions of the source are computed character by character.  *)
(* Each thread of the process is a caller of the resolver; thread 1 is the *)
(* main thread of the interpreter, the only one in which CPython installs  *)
(* signal handlers and runs them.                                          *)
(***************************************************************************)
EXTENDS Integers, Sequences, FiniteSets, TLC

VARIABLES
  env,                \* the deployment: platform, calling threads, the texts they pass
  pc,                 \* pc[t]: position of thread t in transliterate_to_gujarati
  english_text,       \* english_text[t]: the argument of the running call
  has_vadhel,         \* has_vadhel[t]: the local of line 209
  text_to_translate,  \* text_to_translate[t]: the local of line 215
  translated_text,    \* translated_text[t]: the local of line 220, None before
  exc,                \* exc[t]: the exception caught at line 236, "none" before
  ret,                \* ret[t]: the value returned to the caller
  log,                \* log[t]: what the running call has printed so far
  calls,              \* calls[t]: number of calls thread t has started
  remoteCalls,        \* remoteCalls[t]: translator.translate calls of the running call
  raisedAt,           \* the position of the main thread when signal_handler last raised
  lockHolder,         \* _timeout_lock: the thread holding it, 0 when free
  handler,            \* whether signal_handler is installed for SIGALRM
  alarm,              \* seconds left on the process alarm, 0 when none is pending
  sigPending,         \* SIGALRM has been delivered, its Python handler has not run yet
  armedBy,            \* <<thread, call>> of the last signal.alarm(3)
  pdfPc,              \* position in generate_personalized_invitation
  gujarati_name,      \* its argument
  pages,              \* template_reader.pages: the page objects read from the template
  page_num,           \* the loop variable of line 121
  pdf_writer          \* the pages added to pdf_writer so far

vars == <<env, pc, english_text, has_vadhel, text_to_translate, translated_text,
          exc, ret, log, calls, remoteCalls, raisedAt, lockHolder,
          handler, alarm, sigPending, armedBy,
          pdfPc, gujarati_name, pages, page_num, pdf_writer>>

\* the state of the document renderer
pdfVars == <<pdfPc, gujarati_name, pages, page_num, pdf_writer>>

(***************************************************************************)
(* Characters and texts                                                    *)
(***************************************************************************)

\* 0x0A80 and 0x0AFF, the ends of the Gujarati block tested at lines 202 and 254
GujaratiFirst == 2688
GujaratiLast == 2815

\* ord(c) >= 0x0A80 and ord(c) <= 0x0AFF
IsGujarati(c) == c >= GujaratiFirst /\ c <= GujaratiLast

\* variant: only the first character is tested
FirstIsGujarati(s) == s # <<>> /\ IsGujarati(s[1])

\* any(... for c in text)
HasGujarati(s) == \E i \in 1..Len(s) : IsGujarati(s[i])

\* str.lower on one character: the ASCII capitals; Gujarati has no case
Lower(c) == IF c \in 65..90 THEN c + 32 ELSE c

\* str.lower
LowerText(s) == [i \in 1..Len(s) |-> Lower(s[i])]

\* the characters str.strip removes (str.isspace) up to U+00A0
IsSpace(c) == c \in {9, 10, 11, 12, 13, 28, 29, 30, 31, 32, 133, 160}

RECURSIVE LStrip(_)
LStrip(s) == IF s # <<>> /\ IsSpace(Head(s)) THEN LStrip(Tail(s)) ELSE s

RECURSIVE RStrip(_)
RStrip(s) ==
  IF s # <<>> /\ IsSpace(s[Len(s)]) THEN RStrip(SubSeq(s, 1, Len(s) - 1)) ELSE s

\* str.strip
Strip(s) == RStrip(LStrip(s))

\* \w of the re module on str patterns: alphanumeric (str.isalnum) or "_".
\* In the Gujarati block the letters and digits are, the vowel signs are not.
IsWordChar(c) ==
  \/ c \in 48..57
  \/ c \in 65..90
  \/ c \in 97..122
  \/ c = 95
  \/ c \in (2693..2701) \cup (2703..2705) \cup (2707..2728) \cup (2730..2736)
            \cup (2738..2739) \cup (2741..2745) \cup {2749} \cup {2768}
            \cup (2784..2785) \cup (2790..2799) \cup {2809}

\* whether position i of s (1..Len(s)) holds a word character; outside: no
WordAt(s, i) == i >= 1 /\ i <= Len(s) /\ IsWordChar(s[i])

\* variant: the pattern without \b, a plain substring match
NoBoundary(s, i) == TRUE

\* \b just before position i of s (i in 1..Len(s)+1)
Boundary(s, i) == WordAt(s, i - 1) # WordAt(s, i)

\* the literal pat occurs in s at position i; ic is re.IGNORECASE
LiteralAt(pat, s, i, ic) ==
  /\ i + Len(pat) - 1 <= Len(s)
  /\ \A j \in 1..Len(pat) :
       IF ic THEN Lower(s[i + j - 1]) = Lower(pat[j]) ELSE s[i + j - 1] = pat[j]

\* r'\b' + word + r'\b' with re.IGNORECASE matches in s at position i
WordMatchAt(word, s, i) ==
  /\ i + Len(word) - 1 <= Len(s)
  /\ Lower(s[i]) = Lower(word[1])
  /\ Boundary(s, i)
  /\ LiteralAt(word, s, i, TRUE)
  /\ Boundary(s, i + Len(word))

\* pattern.search(s) for r'\bword\b'
SearchWord(word, s) == \E i \in 1..Len(s) : WordMatchAt(word, s, i)

RECURSIVE SubWordFrom(_, _, _, _)
SubWordFrom(word, repl, s, i) ==
  IF i > Len(s) THEN <<>>
  ELSE IF WordMatchAt(word, s, i)
       THEN repl \o SubWordFrom(word, repl, s, i + Len(word))
       ELSE <<s[i]>> \o SubWordFrom(word, repl, s, i + 1)

\* re.sub(r'\bword\b', repl, s, flags=re.IGNORECASE): every non-overlapping
\* match, leftmost first, the boundaries taken in s itself
SubWord(word, repl, s) ==
  IF SearchWord(word, s) THEN SubWordFrom(word, repl, s, 1) ELSE s

RECURSIVE ReplaceFrom(_, _, _, _)
ReplaceFrom(old, new, s, i) ==
  IF i > Len(s) THEN <<>>
  ELSE IF LiteralAt(old, s, i, FALSE)
       THEN new \o ReplaceFrom(old, new, s, i + Len(old))
       ELSE <<s[i]>> \o ReplaceFrom(old, new, s, i + 1)

\* str.replace(old, new) for a non-empty old
Replace(old, new, s) == ReplaceFrom(old, new, s, 1)

(***************************************************************************)
(* The fixed texts of the resolver                                         *)
(***************************************************************************)

\* 'vadhel', the word of vadhel_pattern (line 206)
Vadhel == <<118, 97, 100, 104, 101, 108>>

\* 'XXX999XXX', the marker of lines 215 and 227
Marker == <<88, 88, 88, 57, 57, 57, 88, 88, 88>>

\* U+0AB5 U+0AA2 U+0AC7 U+0AB3, the override target of lines 71 and 227-230
VadhelGujarati == <<2741, 2722, 2759, 2739>>

\* the two transliterations line 229 and line 230 correct
NearMiss1 == <<2741, 2750, 2727, 2759, 2738>>
NearMiss2 == <<2741, 2727, 2759, 2738>>

\* the placeholder word of the cleanup pattern r'_?...' (line 233)
Placeholder == <<2730, 2765, 2738, 2759, 2744, 2745, 2763, 2738, 2765, 2721, 2736>>

RECURSIVE StripPlaceholderFrom(_, _)
StripPlaceholderFrom(s, i) ==
  IF i > Len(s) THEN <<>>
  ELSE IF s[i] = 95 /\ LiteralAt(Placeholder, s, i + 1, FALSE)
       THEN StripPlaceholderFrom(s, i + 1 + Len(Placeholder))
       ELSE IF LiteralAt(Placeholder, s, i, FALSE)
            THEN StripPlaceholderFrom(s, i + Len(Placeholder))
            ELSE <<s[i]>> \o StripPlaceholderFrom(s, i + 1)

\* re.sub(r'_?<placeholder>', '', s)
StripPlaceholder(s) == StripPlaceholderFrom(s, 1)

\* Translation mapping for English to Gujarati (lines 69-173), in the order
\* of the literal, which is the order ENGLISH_TO_GUJARATI.items() yields
ENGLISH_TO_GUJARATI ==
  <<
    (* vadhel   line  71 *) [eng |-> <<118, 97, 100, 104, 101, 108>>, guj |-> <<2741, 2722, 2759, 2739>>],
    (* bhai     line  74 *) [eng |-> <<98, 104, 97, 105>>, guj |-> <<2733, 2750, 2696>>],
    (* ben      line  75 *) [eng |-> <<98, 101, 110>>, guj |-> <<2732, 2759, 2728>>],
    (* shri     line  76 *) [eng |-> <<115, 104, 114, 105>>, guj |-> <<2742, 2765, 2736, 2752>>],
    (* patel    line  79 *) [eng |-> <<112, 97, 116, 101, 108>>, guj |-> <<2730, 2719, 2759, 2738>>],
    (* desai    line  80 *) [eng |-> <<100, 101, 115, 97, 105>>, guj |-> <<2726, 2759, 2744, 2750, 2696>>],
    (* shah     line  81 *) [eng |-> <<115, 104, 97, 104>>, guj |-> <<2742, 2750, 2745>>],
    (* modi     line  82 *) [eng |-> <<109, 111, 100, 105>>, guj |-> <<2734, 2763, 2726, 2752>>],
    (* joshi    line  83 *) [eng |-> <<106, 111, 115, 104, 105>>, guj |-> <<2716, 2763, 2742, 2752>>],
    (* dave     line  84 *) [eng |-> <<100, 97, 118, 101>>, guj |-> <<2726, 2741, 2759>>],
    (* mehta    line  85 *) [eng |-> <<109, 101, 104, 116, 97>>, guj |-> <<2734, 2759, 2745, 2724, 2750>>],
    (* trivedi  line  86 *) [eng |-> <<116, 114, 105, 118, 101, 100, 105>>, guj |-> <<2724, 2765, 2736, 2751, 2741, 2759, 2726, 2752>>],
    (* pandya   line  87 *) [eng |-> <<112, 97, 110, 100, 121, 97>>, guj |-> <<2730, 2690, 2721, 2765, 2735, 2750>>],
    (* sharma   line  88 *) [eng |-> <<115, 104, 97, 114, 109, 97>>, guj |-> <<2742, 2736, 2765, 2734, 2750>>],
    (* parikh   line  89 *) [eng |-> <<112, 97, 114, 105, 107, 104>>, guj |-> <<2730, 2750, 2736, 2752, 2710>>],
    (* vyas     line  90 *) [eng |-> <<118, 121, 97, 115>>, guj |-> <<2741, 2765, 2735, 2750, 2744>>],
    (* amin     line  91 *) [eng |-> <<97, 109, 105, 110>>, guj |-> <<2693, 2734, 2752, 2728>>],
    (* thakkar  line  92 *) [eng |-> <<116, 104, 97, 107, 107, 97, 114>>, guj |-> <<2720, 2709, 2765, 2709, 2736>>],
    (* solanki  line  93 *) [eng |-> <<115, 111, 108, 97, 110, 107, 105>>, guj |-> <<2744, 2763, 2738, 2690, 2709, 2752>>],
    (* raval    line  94 *) [eng |-> <<114, 97, 118, 97, 108>>, guj |-> <<2736, 2750, 2741, 2738>>],
    (* bhatt    line  95 *) [eng |-> <<98, 104, 97, 116, 116>>, guj |-> <<2733, 2719, 2765, 2719>>],
    (* bhavsar  line  96 *) [eng |-> <<98, 104, 97, 118, 115, 97, 114>>, guj |-> <<2733, 2750, 2741, 2744, 2750, 2736>>],
    (* choksi   line  97 *) [eng |-> <<99, 104, 111, 107, 115, 105>>, guj |-> <<2714, 2763, 2709, 2744, 2752>>],
    (* dalal    line  98 *) [eng |-> <<100, 97, 108, 97, 108>>, guj |-> <<2726, 2738, 2750, 2738>>],
    (* gandhi   line  99 *) [eng |-> <<103, 97, 110, 100, 104, 105>>, guj |-> <<2711, 2750, 2690, 2727, 2752>>],
    (* kapadia  line 100 *) [eng |-> <<107, 97, 112, 97, 100, 105, 97>>, guj |-> <<2709, 2730, 2750, 2721, 2751, 2735, 2750>>],
    (* mistry   line 101 *) [eng |-> <<109, 105, 115, 116, 114, 121>>, guj |-> <<2734, 2751, 2744, 2765, 2724, 2765, 2736, 2752>>],
    (* panchal  line 102 *) [eng |-> <<112, 97, 110, 99, 104, 97, 108>>, guj |-> <<2730, 2690, 2714, 2750, 2738>>],
    (* rathod   line 103 *) [eng |-> <<114, 97, 116, 104, 111, 100>>, guj |-> <<2736, 2750, 2720, 2763, 2721>>],
    (* sanghvi  line 104 *) [eng |-> <<115, 97, 110, 103, 104, 118, 105>>, guj |-> <<2744, 2690, 2712, 2741, 2752>>],
    (* vora     line 105 *) [eng |-> <<118, 111, 114, 97>>, guj |-> <<2741, 2763, 2736, 2750>>],
    (* ramesh   line 108 *) [eng |-> <<114, 97, 109, 101, 115, 104>>, guj |-> <<2736, 2734, 2759, 2742>>],
    (* mahesh   line 109 *) [eng |-> <<109, 97, 104, 101, 115, 104>>, guj |-> <<2734, 2745, 2759, 2742>>],
    (* suresh   line 110 *) [eng |-> <<115, 117, 114, 101, 115, 104>>, guj |-> <<2744, 2753, 2736, 2759, 2742>>],
    (* mukesh   line 111 *) [eng |-> <<109, 117, 107, 101, 115, 104>>, guj |-> <<2734, 2753, 2709, 2759, 2742>>],
    (* rajesh   line 112 *) [eng |-> <<114, 97, 106, 101, 115, 104>>, guj |-> <<2736, 2750, 2716, 2759, 2742>>],
    (* paresh   line 113 *) [eng |-> <<112, 97, 114, 101, 115, 104>>, guj |-> <<2730, 2736, 2759, 2742>>],
    (* nilesh   line 114 *) [eng |-> <<110, 105, 108, 101, 115, 104>>, guj |-> <<2728, 2751, 2738, 2759, 2742>>],
    (* hitesh   line 115 *) [eng |-> <<104, 105, 116, 101, 115, 104>>, guj |-> <<2745, 2751, 2724, 2759, 2742>>],
    (* jignesh  line 116 *) [eng |-> <<106, 105, 103, 110, 101, 115, 104>>, guj |-> <<2716, 2751, 2711, 2765, 2728, 2759, 2742>>],
    (* dipak    line 117 *) [eng |-> <<100, 105, 112, 97, 107>>, guj |-> <<2726, 2751, 2730, 2709>>],
    (* amit     line 118 *) [eng |-> <<97, 109, 105, 116>>, guj |-> <<2693, 2734, 2751, 2724>>],
    (* vijay    line 119 *) [eng |-> <<118, 105, 106, 97, 121>>, guj |-> <<2741, 2751, 2716, 2735>>],
    (* ajay     line 120 *) [eng |-> <<97, 106, 97, 121>>, guj |-> <<2693, 2716, 2735>>],
    (* sanjay   line 121 *) [eng |-> <<115, 97, 110, 106, 97, 121>>, guj |-> <<2744, 2690, 2716, 2735>>],
    (* jayesh   line 122 *) [eng |-> <<106, 97, 121, 101, 115, 104>>, guj |-> <<2716, 2735, 2759, 2742>>],
    (* manish   line 123 *) [eng |-> <<109, 97, 110, 105, 115, 104>>, guj |-> <<2734, 2728, 2751, 2743>>],
    (* ravi     line 124 *) [eng |-> <<114, 97, 118, 105>>, guj |-> <<2736, 2741, 2751>>],
    (* prakash  line 125 *) [eng |-> <<112, 114, 97, 107, 97, 115, 104>>, guj |-> <<2730, 2765, 2736, 2709, 2750, 2742>>],
    (* ashok    line 126 *) [eng |-> <<97, 115, 104, 111, 107>>, guj |-> <<2693, 2742, 2763, 2709>>],
    (* vinod    line 127 *) [eng |-> <<118, 105, 110, 111, 100>>, guj |-> <<2741, 2751, 2728, 2763, 2726>>],
    (* anil     line 128 *) [eng |-> <<97, 110, 105, 108>>, guj |-> <<2693, 2728, 2751, 2738>>],
    (* kishore  line 129 *) [eng |-> <<107, 105, 115, 104, 111, 114, 101>>, guj |-> <<2709, 2751, 2742, 2763, 2736>>],
    (* bharat   line 130 *) [eng |-> <<98, 104, 97, 114, 97, 116>>, guj |-> <<2733, 2736, 2724>>],
    (* kiran    line 131 *) [eng |-> <<107, 105, 114, 97, 110>>, guj |-> <<2709, 2751, 2736, 2723>>],
    (* yogesh   line 132 *) [eng |-> <<121, 111, 103, 101, 115, 104>>, guj |-> <<2735, 2763, 2711, 2759, 2742>>],
    (* naresh   line 133 *) [eng |-> <<110, 97, 114, 101, 115, 104>>, guj |-> <<2728, 2736, 2759, 2742>>],
    (* dinesh   line 134 *) [eng |-> <<100, 105, 110, 101, 115, 104>>, guj |-> <<2726, 2751, 2728, 2759, 2742>>],
    (* sandip   line 135 *) [eng |-> <<115, 97, 110, 100, 105, 112>>, guj |-> <<2744, 2690, 2726, 2752, 2730>>],
    (* harish   line 136 *) [eng |-> <<104, 97, 114, 105, 115, 104>>, guj |-> <<2745, 2736, 2752, 2742>>],
    (* jagdish  line 137 *) [eng |-> <<106, 97, 103, 100, 105, 115, 104>>, guj |-> <<2716, 2711, 2726, 2752, 2742>>],
    (* girish   line 138 *) [eng |-> <<103, 105, 114, 105, 115, 104>>, guj |-> <<2711, 2751, 2736, 2752, 2742>>],
    (* sarthak  line 139 *) [eng |-> <<115, 97, 114, 116, 104, 97, 107>>, guj |-> <<2744, 2750, 2736, 2765, 2725, 2709>>],
    (* vasudha  line 140 *) [eng |-> <<118, 97, 115, 117, 100, 104, 97>>, guj |-> <<2741, 2744, 2753, 2727, 2750>>],
    (* kalpana  line 143 *) [eng |-> <<107, 97, 108, 112, 97, 110, 97>>, guj |-> <<2709, 2738, 2765, 2730, 2728, 2750>>],
    (* anita    line 144 *) [eng |-> <<97, 110, 105, 116, 97>>, guj |-> <<2693, 2728, 2751, 2724, 2750>>],
    (* meera    line 145 *) [eng |-> <<109, 101, 101, 114, 97>>, guj |-> <<2734, 2752, 2736, 2750>>],
    (* geeta    line 146 *) [eng |-> <<103, 101, 101, 116, 97>>, guj |-> <<2711, 2752, 2724, 2750>>],
    (* sita     line 147 *) [eng |-> <<115, 105, 116, 97>>, guj |-> <<2744, 2752, 2724, 2750>>],
    (* nisha    line 148 *) [eng |-> <<110, 105, 115, 104, 97>>, guj |-> <<2728, 2751, 2742, 2750>>],
    (* priya    line 149 *) [eng |-> <<112, 114, 105, 121, 97>>, guj |-> <<2730, 2765, 2736, 2751, 2735, 2750>>],
    (* kavita   line 150 *) [eng |-> <<107, 97, 118, 105, 116, 97>>, guj |-> <<2709, 2741, 2751, 2724, 2750>>],
    (* nita     line 151 *) [eng |-> <<110, 105, 116, 97>>, guj |-> <<2728, 2752, 2724, 2750>>],
    (* rita     line 152 *) [eng |-> <<114, 105, 116, 97>>, guj |-> <<2736, 2752, 2724, 2750>>],
    (* mita     line 153 *) [eng |-> <<109, 105, 116, 97>>, guj |-> <<2734, 2752, 2724, 2750>>],
    (* lata     line 154 *) [eng |-> <<108, 97, 116, 97>>, guj |-> <<2738, 2724, 2750>>],
    (* asha     line 155 *) [eng |-> <<97, 115, 104, 97>>, guj |-> <<2694, 2742, 2750>>],
    (* usha     line 156 *) [eng |-> <<117, 115, 104, 97>>, guj |-> <<2697, 2743, 2750>>],
    (* rekha    line 157 *) [eng |-> <<114, 101, 107, 104, 97>>, guj |-> <<2736, 2759, 2710, 2750>>],
    (* shobha   line 158 *) [eng |-> <<115, 104, 111, 98, 104, 97>>, guj |-> <<2742, 2763, 2733, 2750>>],
    (* manjula  line 159 *) [eng |-> <<109, 97, 110, 106, 117, 108, 97>>, guj |-> <<2734, 2690, 2716, 2753, 2738, 2750>>],
    (* sarita   line 160 *) [eng |-> <<115, 97, 114, 105, 116, 97>>, guj |-> <<2744, 2736, 2751, 2724, 2750>>],
    (* sunita   line 161 *) [eng |-> <<115, 117, 110, 105, 116, 97>>, guj |-> <<2744, 2753, 2728, 2751, 2724, 2750>>],
    (* kanta    line 162 *) [eng |-> <<107, 97, 110, 116, 97>>, guj |-> <<2709, 2750, 2690, 2724, 2750>>],
    (* pramila  line 163 *) [eng |-> <<112, 114, 97, 109, 105, 108, 97>>, guj |-> <<2730, 2765, 2736, 2734, 2751, 2738, 2750>>],
    (* sharda   line 164 *) [eng |-> <<115, 104, 97, 114, 100, 97>>, guj |-> <<2742, 2750, 2736, 2726, 2750>>],
    (* kokila   line 165 *) [eng |-> <<107, 111, 107, 105, 108, 97>>, guj |-> <<2709, 2763, 2709, 2751, 2738, 2750>>],
    (* hansa    line 166 *) [eng |-> <<104, 97, 110, 115, 97>>, guj |-> <<2745, 2690, 2744, 2750>>],
    (* leela    line 167 *) [eng |-> <<108, 101, 101, 108, 97>>, guj |-> <<2738, 2752, 2738, 2750>>],
    (* maya     line 168 *) [eng |-> <<109, 97, 121, 97>>, guj |-> <<2734, 2750, 2735, 2750>>],
    (* neeta    line 169 *) [eng |-> <<110, 101, 101, 116, 97>>, guj |-> <<2728, 2752, 2724, 2750>>],
    (* vaishali line 170 *) [eng |-> <<118, 97, 105, 115, 104, 97, 108, 105>>, guj |-> <<2741, 2760, 2742, 2750, 2738, 2752>>],
    (* bharti   line 171 *) [eng |-> <<98, 104, 97, 114, 116, 105>>, guj |-> <<2733, 2750, 2736, 2724, 2752>>],
    (* dipti    line 172 *) [eng |-> <<100, 105, 112, 116, 105>>, guj |-> <<2726, 2752, 2730, 2765, 2724, 2752>>]
  >>

\* the orders in which the loop of line 249 may visit the dictionary: the
\* order of the literal and its reverse
Orders == {"literal", "reversed"}

KeyIndex(order, k) ==
  IF order = "literal" THEN k ELSE Len(ENGLISH_TO_GUJARATI) + 1 - k

RECURSIVE ReplaceRange(_, _, _, _)
\* the iterations lo..hi of the loop of lines 249-251 applied to result, each
\* iteration being result = re.sub(r'\b' + eng + r'\b', guj, result, flags=re.IGNORECASE);
\* the range is halved so that the evaluation stays shallow, the iterations
\* still run one after the other in the order given; the entry, the middle
\* of the range and the result of the first half are bound variables so
\* that each is computed once
ReplaceRange(order, lo, hi, result) ==
  IF lo = hi
    THEN CHOOSE out \in
           { SubWord(e.eng, e.guj, result) :
               e \in {ENGLISH_TO_GUJARATI[KeyIndex(order, lo)]} } : TRUE
    ELSE CHOOSE out \in UNION
           { { ReplaceRange(order, mid + 1, hi, left) :
                 left \in {ReplaceRange(order, lo, mid, result)} } :
               mid \in {(lo + hi) \div 2} } : TRUE

\* for eng, guj in ENGLISH_TO_GUJARATI.items(): ... (lines 249-251)
ReplaceWords(order, result) ==
  ReplaceRange(order, 1, Len(ENGLISH_TO_GUJARATI), result)

\* variant: the working copy is returned when nothing matched
FallbackResultLowered(order, text) ==
  ReplaceWords(order, Strip(LowerText(text)))

\* lines 244-258: the dictionary fallback, visiting the dictionary in the given order
FallbackResult(order, text) ==
  CHOOSE out \in
    { IF HasGujarati(result) THEN result ELSE text :
        result \in { ReplaceWords(order, text_lower) :
                       text_lower \in {Strip(LowerText(text))} } } : TRUE

\* lines 225-233: the corrections applied to a translation whose input held the word
FixVadhel(text) ==
  CHOOSE out \in
    { StripPlaceholder(fixed2) :
        fixed2 \in { Replace(NearMiss2, VadhelGujarati, fixed1) :
          fixed1 \in { Replace(NearMiss1, VadhelGujarati, marked) :
            marked \in { Replace(Marker, VadhelGujarati, text) } } } } : TRUE

\* lines 223-235: the text returned for a non-empty translation
Processed(hasVadhel, text) == IF hasVadhel THEN FixVadhel(text) ELSE text

(***************************************************************************)
(* The environment: threads, platform, the texts passed, the translator    *)
(***************************************************************************)

\* bounds of the model
MaxPieces == 3
NumWorkers == 1

\* the seconds given to time_limit at line 218
TimeLimit == 3

MainThread == 1
Threads == 1..(1 + NumWorkers)

\* Python's None, and the value of a local that is not set
None == <<-1>>

\* the pieces the bounded arguments are built from: "Vadhel", "nita", "a",
\* " ", "-" and the Gujarati letter U+0AB5
Pieces ==
  { <<86, 97, 100, 104, 101, 108>>, <<110, 105, 116, 97>>, <<97>>,
    <<32>>, <<45>>, <<2741>> }

RECURSIVE Texts(_)
Texts(n) ==
  IF n = 0 THEN {<<>>}
  ELSE LET T == Texts(n - 1) IN T \cup {t \o p : t \in T, p \in Pieces}

\* the arguments of a lone caller, those of concurrent callers, "Vadhel" and
\* "nita a", and that of callers under fair scheduling, "Vadhel"
Inputs(mode) ==
  IF mode = "sequential" THEN Texts(MaxPieces)
  ELSE IF mode = "concurrent"
       THEN { <<86, 97, 100, 104, 101, 108>>, <<110, 105, 116, 97, 32, 97>> }
       ELSE { <<86, 97, 100, 104, 101, 108>> }

\* what result.text of translator.translate (line 219) may be for a request:
\* the request itself, either near-miss transliteration (the second with a
\* placeholder artifact), the Latin text "ab", a Gujarati text without the
\* marker; for concurrent callers the request itself
Replies(mode, request) ==
  IF mode = "sequential"
    THEN { request,
           NearMiss1,
           NearMiss2 \o <<95>> \o Placeholder,
           <<97, 98>>,
           <<2733, 2750, 2696>> }
    ELSE { request }

Environments ==
  [sigalrm : BOOLEAN, mode : {"sequential"}, callers : {{MainThread}, {MainThread + 1}}]
  \cup [sigalrm : BOOLEAN, mode : {"concurrent", "scheduled"}, callers : {Threads}]

(***************************************************************************)
(* Initial state                                                           *)
(***************************************************************************)

InitIn(mode) ==
  /\ env \in {e \in Environments : e.mode = mode}
  /\ pc = [t \in Threads |-> "idle"]
  /\ english_text = [t \in Threads |-> None]
  /\ has_vadhel = [t \in Threads |-> FALSE]
  /\ text_to_translate = [t \in Threads |-> None]
  /\ translated_text = [t \in Threads |-> None]
  /\ exc = [t \in Threads |-> "none"]
  /\ ret = [t \in Threads |-> None]
  /\ log = [t \in Threads |-> <<>>]
  /\ calls = [t \in Threads |-> 0]
  /\ remoteCalls = [t \in Threads |-> 0]
  /\ raisedAt = "none"
  /\ lockHolder = 0
  /\ handler = FALSE
  /\ alarm = 0
  /\ sigPending = FALSE
  /\ armedBy = <<0, 0>>
  /\ pdfPc = "idle"
  /\ gujarati_name = None
  /\ pages = <<>>
  /\ page_num = 0
  /\ pdf_writer = <<>>

Init == InitIn("sequential")
InitConc == InitIn("concurrent")
InitLive == InitIn("scheduled")

(***************************************************************************)
(* transliterate_to_gujarati and time_limit, one action per step           *)
(***************************************************************************)

\* a thread takes its next step; the main thread runs a pending signal
\* handler before its next instruction
Runs(t) == t \in env.callers /\ (t = MainThread => ~sigPending)

sharedVars == <<lockHolder, handler, alarm, sigPending, armedBy, raisedAt>>

\* variant: the guard of line 198 is missing
NeverEmpty(x) == FALSE

\* line 198: not english_text
IsEmpty(x) == x = <<>>

\* lines 198-215, for the argument x
Begin(t, x) ==
  /\ english_text' = [english_text EXCEPT ![t] = x]
  /\ calls' = [calls EXCEPT ![t] = @ + 1]
  /\ translated_text' = [translated_text EXCEPT ![t] = None]
  /\ exc' = [exc EXCEPT ![t] = "none"]
  /\ log' = [log EXCEPT ![t] = <<>>]
  /\ remoteCalls' = [remoteCalls EXCEPT ![t] = 0]
  /\ IF IsEmpty(x)
       THEN /\ ret' = [ret EXCEPT ![t] = <<>>]
            /\ pc' = [pc EXCEPT ![t] = "done"]
            /\ UNCHANGED <<has_vadhel, text_to_translate>>
     ELSE IF HasGujarati(x)
       THEN /\ ret' = [ret EXCEPT ![t] = x]
            /\ pc' = [pc EXCEPT ![t] = "done"]
            /\ UNCHANGED <<has_vadhel, text_to_translate>>
     ELSE /\ has_vadhel' = [has_vadhel EXCEPT ![t] = SearchWord(Vadhel, x)]
          /\ text_to_translate' =
               [text_to_translate EXCEPT
                  ![t] = IF SearchWord(Vadhel, x) THEN SubWord(Vadhel, Marker, x) ELSE x]
          /\ ret' = [ret EXCEPT ![t] = None]
          /\ pc' = [pc EXCEPT ![t] = "time_limit"]
  /\ UNCHANGED <<pdfVars, env, sharedVars>>

\* a caller passes a text to transliterate_to_gujarati
Call(t) ==
  /\ Runs(t)
  /\ pc[t] = "idle"
  /\ \E x \in Inputs(env.mode) : Begin(t, x)

\* a caller passes a returned Gujarati text to transliterate_to_gujarati again
Reapply(t) ==
  /\ Runs(t)
  /\ pc[t] = "done"
  /\ calls[t] = 1
  /\ HasGujarati(ret[t])
  /\ Begin(t, ret[t])

\* variant: the lock is not waited for
LockIgnored == TRUE

\* _timeout_lock can be acquired
LockFree == lockHolder = 0

\* line 41 true, line 43: with _timeout_lock

AcquireLock(t) ==
  /\ Runs(t)
  /\ pc[t] = "time_limit"
  /\ env.sigalrm
  /\ LockFree
  /\ lockHolder' = t
  /\ pc' = [pc EXCEPT ![t] = "signal"]
  /\ UNCHANGED <<pdfVars, env, english_text, has_vadhel, text_to_translate, translated_text,
                 exc, ret, log, calls, remoteCalls, raisedAt, handler, alarm,
                 sigPending, armedBy>>

\* line 41 false, lines 50-52: the body runs with no lock and no alarm
EnterUnbounded(t) ==
  /\ Runs(t)
  /\ pc[t] = "time_limit"
  /\ ~env.sigalrm
  /\ pc' = [pc EXCEPT ![t] = "translate"]
  /\ remoteCalls' = [remoteCalls EXCEPT ![t] = @ + 1]
  /\ UNCHANGED <<pdfVars, env, english_text, has_vadhel, text_to_translate, translated_text,
                 exc, ret, log, calls, sharedVars>>

\* signal.signal succeeds in the main thread of the interpreter only
InMainThread(t) == t = MainThread

\* line 44 in the main thread
SetHandler(t) ==
  /\ Runs(t)
  /\ pc[t] = "signal"
  /\ InMainThread(t)
  /\ handler' = TRUE
  /\ pc' = [pc EXCEPT ![t] = "alarm"]
  /\ UNCHANGED <<pdfVars, env, english_text, has_vadhel, text_to_translate, translated_text,
                 exc, ret, log, calls, remoteCalls, raisedAt, lockHolder, alarm,
                 sigPending, armedBy>>

\* variant: except TimeoutException
CaughtTimeoutOnly(e) == e = "Timeout"

\* the exceptions the try of line 212 catches (line 236)
Caught(e) == e \in {"Timeout", "Error"}

\* variant: the lock is not released when an exception leaves the region
RaiseKeepingLock(t, e, unlock) ==
  /\ exc' = [exc EXCEPT ![t] = e]
  /\ pc' = [pc EXCEPT ![t] = IF Caught(e) THEN "except" ELSE "raised"]
  /\ lockHolder' = lockHolder

\* an exception e raised in thread t inside the try block, the lock released where
\* the with statement of line 43 is left: caught at line 236, or passed on
Raise(t, e, unlock) ==
  /\ exc' = [exc EXCEPT ![t] = e]
  /\ pc' = [pc EXCEPT ![t] = IF Caught(e) THEN "except" ELSE "raised"]
  /\ lockHolder' = IF unlock /\ lockHolder = t THEN 0 ELSE lockHolder

\* line 44 in any other thread: signal.signal raises ValueError
SetHandlerFails(t) ==
  /\ Runs(t)
  /\ pc[t] = "signal"
  /\ ~InMainThread(t)
  /\ Raise(t, "Error", TRUE)
  /\ UNCHANGED <<pdfVars, env, english_text, has_vadhel, text_to_translate, translated_text,
                 ret, log, calls, remoteCalls, raisedAt, handler, alarm,
                 sigPending, armedBy>>

\* line 45: signal.alarm(seconds), then the body of the with of line 218 starts
SetAlarm(t) ==
  /\ Runs(t)
  /\ pc[t] = "alarm"
  /\ alarm' = TimeLimit
  /\ armedBy' = <<t, calls[t]>>
  /\ pc' = [pc EXCEPT ![t] = "translate"]
  /\ remoteCalls' = [remoteCalls EXCEPT ![t] = @ + 1]
  /\ UNCHANGED <<pdfVars, env, english_text, has_vadhel, text_to_translate, translated_text,
                 exc, ret, log, calls, raisedAt, lockHolder, handler, sigPending>>

\* variant: the alarm is left pending
AlarmKept(a) == a

\* line 49: signal.alarm(0)
AlarmCancelled(a) == 0

\* lines 219-220: translate returns; text is result.text, <<>> when the result
\* or its text is empty
TranslateReturns(t) ==
  /\ Runs(t)
  /\ pc[t] = "translate"
  /\ \E text \in Replies(env.mode, text_to_translate[t]) \cup {<<>>} :
       translated_text' = [translated_text EXCEPT ![t] = IF text # <<>> THEN text ELSE None]
  /\ pc' = [pc EXCEPT ![t] = IF env.sigalrm THEN "finally" ELSE "process"]
  /\ UNCHANGED <<pdfVars, env, english_text, has_vadhel, text_to_translate, exc, ret, log,
                 calls, remoteCalls, sharedVars>>

\* line 219: translate raises; the finally of line 48 and the with of line 43 are left
TranslateRaises(t) ==
  /\ Runs(t)
  /\ pc[t] = "translate"
  /\ Raise(t, "Error", TRUE)
  /\ alarm' = IF env.sigalrm THEN AlarmCancelled(alarm) ELSE alarm
  /\ UNCHANGED <<pdfVars, env, english_text, has_vadhel, text_to_translate, translated_text,
                 ret, log, calls, remoteCalls, raisedAt, handler, sigPending, armedBy>>

\* lines 48-49: the body ended normally
CancelAlarm(t) ==
  /\ Runs(t)
  /\ pc[t] = "finally"
  /\ alarm' = AlarmCancelled(alarm)
  /\ pc' = [pc EXCEPT ![t] = "release"]
  /\ UNCHANGED <<pdfVars, env, english_text, has_vadhel, text_to_translate, translated_text,
                 exc, ret, log, calls, remoteCalls, raisedAt, lockHolder, handler,
                 sigPending, armedBy>>

\* line 43: the with statement releases _timeout_lock
ReleaseLock(t) ==
  /\ Runs(t)
  /\ pc[t] = "release"
  /\ lockHolder' = 0
  /\ pc' = [pc EXCEPT ![t] = "process"]
  /\ UNCHANGED <<pdfVars, env, english_text, has_vadhel, text_to_translate, translated_text,
                 exc, ret, log, calls, remoteCalls, raisedAt, handler, alarm,
                 sigPending, armedBy>>

\* lines 223-235: a non-empty translation is corrected and returned; with none
\* the try block ends and line 242 is next
Process(t) ==
  /\ Runs(t)
  /\ pc[t] = "process"
  /\ IF translated_text[t] # None
       THEN /\ pc' = [pc EXCEPT ![t] = "done"]
            /\ ret' = [ret EXCEPT ![t] = Processed(has_vadhel[t], translated_text[t])]
       ELSE /\ pc' = [pc EXCEPT ![t] = "fallback"]
            /\ UNCHANGED ret
  /\ UNCHANGED <<pdfVars, env, english_text, has_vadhel, text_to_translate, translated_text,
                 exc, log, calls, remoteCalls, sharedVars>>

\* variant: every failure is printed as a generic one
ErrorTypeGeneric(e) == "failed"

\* line 238: the failure kind printed at line 239
ErrorType(e) == IF e = "Timeout" THEN "timed out" ELSE "failed"

\* lines 236-239
LogFailure(t) ==
  /\ Runs(t)
  /\ pc[t] = "except"
  /\ log' = [log EXCEPT ![t] = Append(@, ErrorType(exc[t]))]
  /\ pc' = [pc EXCEPT ![t] = "fallback"]
  /\ UNCHANGED <<pdfVars, env, english_text, has_vadhel, text_to_translate, translated_text,
                 exc, ret, calls, remoteCalls, sharedVars>>

\* lines 242-258
Fallback(t) ==
  /\ Runs(t)
  /\ pc[t] = "fallback"
  /\ log' = [log EXCEPT ![t] = Append(@, "fallback")]
  /\ pc' = [pc EXCEPT ![t] = "done"]
  /\ \E order \in Orders :
       ret' = [ret EXCEPT ![t] = FallbackResult(order, english_text[t])]
  /\ UNCHANGED <<pdfVars, env, english_text, has_vadhel, text_to_translate, translated_text,
                 exc, calls, remoteCalls, sharedVars>>

\* a second passes while an alarm is pending; at zero SIGALRM is delivered
Tick ==
  /\ alarm > 0
  /\ alarm' = alarm - 1
  /\ sigPending' = (sigPending \/ (alarm = 1 /\ handler))
  /\ UNCHANGED <<pdfVars, env, pc, english_text, has_vadhel, text_to_translate, translated_text,
                 exc, ret, log, calls, remoteCalls, raisedAt, lockHolder, handler,
                 armedBy>>

\* the positions of a thread inside the try block of lines 212-235
TryBlock == {"time_limit", "signal", "alarm", "translate", "finally", "release", "process"}

\* the positions inside the try/finally of lines 46-49 before signal.alarm(0) ran
BeforeCancel == {"translate"}

\* lines 37-38: signal_handler runs in the main thread and raises TimeoutException
\* at the instruction the main thread is at
HandleSignal ==
  /\ sigPending
  /\ sigPending' = FALSE
  /\ raisedAt' = pc[MainThread]
  /\ IF pc[MainThread] \in TryBlock
       THEN /\ Raise(MainThread, "Timeout", TRUE)
            /\ alarm' = IF pc[MainThread] \in BeforeCancel
                          THEN AlarmCancelled(alarm) ELSE alarm
       ELSE /\ exc' = [exc EXCEPT ![MainThread] = "Timeout"]
            /\ pc' = [pc EXCEPT ![MainThread] = "raised"]
            /\ UNCHANGED <<lockHolder, alarm>>
  /\ UNCHANGED <<pdfVars, env, english_text, has_vadhel, text_to_translate, translated_text,
                 ret, log, calls, remoteCalls, handler, armedBy>>

Next ==
  \/ \E t \in Threads :
       \/ Call(t)
       \/ Reapply(t)
       \/ AcquireLock(t)
       \/ EnterUnbounded(t)
       \/ SetHandler(t)
       \/ SetHandlerFails(t)
       \/ SetAlarm(t)
       \/ TranslateReturns(t)
       \/ TranslateRaises(t)
       \/ CancelAlarm(t)
       \/ ReleaseLock(t)
       \/ Process(t)
       \/ LogFailure(t)
       \/ Fallback(t)
  \/ Tick
  \/ HandleSignal

Spec == Init /\ [][Next]_vars
SpecConc == InitConc /\ [][Next]_vars

\* the steps of thread t that are its own, which it takes when scheduled; the
\* return of translator.translate is the translator's, which may hang forever
OwnStep(t) ==
  \/ AcquireLock(t)
  \/ EnterUnbounded(t)
  \/ SetHandler(t)
  \/ SetHandlerFails(t)
  \/ SetAlarm(t)
  \/ CancelAlarm(t)
  \/ ReleaseLock(t)
  \/ Process(t)
  \/ LogFailure(t)
  \/ Fallback(t)

\* fair scheduling: every thread that can step does, time passes while an
\* alarm is pending, and a delivered signal gets its handler run
Fairness ==
  /\ \A t \in Threads : WF_vars(OwnStep(t))
  /\ WF_vars(Tick)
  /\ WF_vars(HandleSignal)

SpecLive == InitLive /\ [][Next]_vars /\ Fairness

(***************************************************************************)
(* InvitationPDFGenerator.generate_personalized_invitation                 *)
(* (src/pdf_generator.py)                                                  *)
(***************************************************************************)

\* the state of the resolver
resolverVars ==
  <<env, pc, english_text, has_vadhel, text_to_translate, translated_text,
    exc, ret, log, calls, remoteCalls, raisedAt, lockHolder, handler, alarm,
    sigPending, armedBy>>

\* bound of the model: the longest template
MaxPages == 5

\* PAGE_1_POSITION and PAGE_4_POSITION (lines 30-31)
PAGE_1_POSITION == <<170, 490>>
PAGE_4_POSITION == <<95, 186>>

\* the names passed to the renderer: the override target, a near-miss
\* transliteration and the Latin text "ab"
Names == {VadhelGujarati, NearMiss1, <<97, 98>>}

\* the page objects PdfReader gives for a template of n pages: page i of the
\* template with nothing merged into it
TemplatePages(n) == [i \in 1..n |-> [orig |-> i, overlays |-> <<>>]]

\* lines 65-99 and page.merge_page: the page with the text drawn over it at
\* the position
Merged(page, text, position) ==
  [page EXCEPT !.overlays = Append(@, [text |-> text, position |-> position])]

\* line 130: page_num == 0
IsPage1(n) == n = 0

\* variant: the fourth page taken for index 4
IsPage5(n) == n = 4

\* line 141: page_num == 3
IsPage4(n) == n = 3

\* lines 117-119: the template is read, the writer is empty
StartGenerate ==
  /\ pdfPc \in {"idle", "done"}
  /\ \E n \in 0..MaxPages : pages' = TemplatePages(n)
  /\ \E name \in Names : gujarati_name' = name
  /\ page_num' = 0
  /\ pdf_writer' = <<>>
  /\ pdfPc' = "loop"
  /\ UNCHANGED resolverVars

\* lines 121-153: one iteration of the loop over the pages of the template
ProcessPage ==
  /\ pdfPc = "loop"
  /\ page_num < Len(pages)
  /\ LET page == pages[page_num + 1]
         merged ==
           IF IsPage1(page_num) THEN Merged(page, gujarati_name, PAGE_1_POSITION)
           ELSE IF IsPage4(page_num) THEN Merged(page, gujarati_name, PAGE_4_POSITION)
           ELSE page
     IN /\ pages' = [pages EXCEPT ![page_num + 1] = merged]
        /\ pdf_writer' = Append(pdf_writer, merged)
  /\ page_num' = page_num + 1
  /\ UNCHANGED <<pdfPc, gujarati_name, resolverVars>>

\* lines 155-172: the loop is over, the writer's pages are written out
WriteOutput ==
  /\ pdfPc = "loop"
  /\ page_num = Len(pages)
  /\ pdfPc' = "done"
  /\ UNCHANGED <<gujarati_name, pages, page_num, pdf_writer, resolverVars>>

NextPdf ==
  \/ StartGenerate
  \/ ProcessPage
  \/ WriteOutput

SpecPdf == Init /\ [][NextPdf]_vars

(***************************************************************************)
(* Vocabulary of the properties, stated apart from the operators above     *)
(***************************************************************************)

\* the Gujarati block U+0A80-U+0AFF
GujaratiBlock == 2688..2815

HoldsGujarati(s) == \E i \in 1..Len(s) : s[i] \in GujaratiBlock

\* the text part occurs in s
Contains(part, s) ==
  \E i \in 1..Len(s) :
    /\ i + Len(part) - 1 <= Len(s)
    /\ SubSeq(s, i, i + Len(part) - 1) = part

\* s is empty or made of whitespace only
IsBlank(s) == \A i \in 1..Len(s) : IsSpace(s[i])

\* a maximal run of word characters of s starts at i
RunStartsAt(s, i) == IsWordChar(s[i]) /\ (i = 1 \/ ~IsWordChar(s[i - 1]))

RECURSIVE RunEnd(_, _)
\* the last position of the run of word characters that holds position i
RunEnd(s, i) ==
  IF i < Len(s) /\ IsWordChar(s[i + 1]) THEN RunEnd(s, i + 1) ELSE i

\* the word w (in lower case) is a whole word of s, whatever the letter case in s
HasWholeWord(w, s) ==
  \E i \in 1..Len(s) :
    /\ RunStartsAt(s, i)
    /\ SubSeq(LowerText(s), i, RunEnd(s, i)) = w

\* w is a key of the dictionary
IsKey(w) == \E k \in 1..Len(ENGLISH_TO_GUJARATI) : ENGLISH_TO_GUJARATI[k].eng = w

\* the dictionary's value for a word that is a key, the word itself otherwise
WordValue(w) ==
  IF IsKey(w)
    THEN (CHOOSE e \in {ENGLISH_TO_GUJARATI[k] : k \in 1..Len(ENGLISH_TO_GUJARATI)} :
            e.eng = w).guj
    ELSE w

RECURSIVE WordsReplacedFrom(_, _)
\* s from position i on, every whole word that is a key replaced by its value
WordsReplacedFrom(s, i) ==
  IF i > Len(s) THEN <<>>
  ELSE IF IsWordChar(s[i])
       THEN WordValue(SubSeq(s, i, RunEnd(s, i))) \o WordsReplacedFrom(s, RunEnd(s, i) + 1)
       ELSE <<s[i]>> \o WordsReplacedFrom(s, i + 1)

\* the pure dictionary-fallback computation on x
DictionaryFallback(x) ==
  LET replaced == WordsReplacedFrom(Strip(LowerText(x)), 1)
  IN IF HoldsGujarati(replaced) THEN replaced ELSE x

\* no dictionary key is a whole word of the lowercased, trimmed x
NoKeyWord(x) ==
  LET s == Strip(LowerText(x))
  IN \A i \in 1..Len(s) : RunStartsAt(s, i) => ~IsKey(SubSeq(s, i, RunEnd(s, i)))

\* the running call of t has returned
Returned(t) == pc[t] = "done"

\* the remote step of the running call of t failed: timeout or exception
RemoteFailed(t) == exc[t] \in {"Timeout", "Error"}

(***************************************************************************)
(* Properties                                                              *)
(***************************************************************************)

\* C1: whenever the argument holds 'vadhel' as a whole word, in any letter
\* case, the returned text contains the override target, whatever the
\* translator did.
C1_OverrideAlways ==
  \A t \in Threads :
    (Returned(t) /\ HasWholeWord(Vadhel, english_text[t]))
      => Contains(VadhelGujarati, ret[t])

C3_GujaratiPassthrough ==
  \A t \in Threads :
    (Returned(t) /\ HoldsGujarati(english_text[t]))
      => /\ ret[t] = english_text[t]
         /\ remoteCalls[t] = 0
         /\ translated_text[t] = None

\* a Gujarati result, passed again, has been returned again
C3_Witness ==
  \E t \in Threads :
    /\ Returned(t) /\ calls[t] = 2
    /\ HoldsGujarati(english_text[t])
    /\ ret[t] = english_text[t]

\* C4: when the remote step fails, by timeout or by exception alike, the
\* returned text is the pure dictionary-fallback computation on the argument:
\* the lowercased, trimmed argument with every whole word that is a key
\* replaced by its value and no part of a longer word replaced, or the
\* argument itself when that text holds no Gujarati character; whatever the
\* order in which the dictionary is visited.
C4_FailureGivesDictionaryFallback ==
  \A t \in Threads :
    (Returned(t) /\ RemoteFailed(t))
      => ret[t] = DictionaryFallback(english_text[t])

\* "Vadhel nita" timed out and came back as the two Gujarati names
C4_Witness ==
  \E t \in Threads :
    /\ Returned(t) /\ exc[t] = "Timeout"
    /\ english_text[t] = <<86, 97, 100, 104, 101, 108, 32, 110, 105, 116, 97>>
    /\ ret[t] = VadhelGujarati \o <<32>> \o WordValue(<<110, 105, 116, 97>>)

\* C5: when the remote step fails and no key is a whole word of the
\* lowercased, trimmed argument, the argument is returned exactly as given.
C5_NoMatchReturnsOriginal ==
  \A t \in Threads :
    (Returned(t) /\ RemoteFailed(t) /\ NoKeyWord(english_text[t]))
      => ret[t] = english_text[t]

\* " Vadhela" failed remotely and came back with its space and its capital
C5_Witness ==
  \E t \in Threads :
    /\ Returned(t) /\ exc[t] = "Error"
    /\ english_text[t] = <<32, 86, 97, 100, 104, 101, 108, 97>>
    /\ ret[t] = english_text[t]
    /\ ret[t] # Strip(LowerText(english_text[t]))

\* C6: no call ends with an exception reaching the caller, and a call that
\* has returned has returned a text.
C6_NoErrorReachesCaller ==
  \A t \in Threads :
    /\ pc[t] # "raised"
    /\ Returned(t) => ret[t] # None

\* a timeout raised while the alarm was being cancelled, and a failure to
\* install the handler, both ended in a returned text
C6_Witness ==
  \E t \in Threads :
    /\ Returned(t) /\ ret[t] # None
    /\ \/ exc[t] = "Timeout" /\ raisedAt = "finally"
       \/ exc[t] = "Error" /\ remoteCalls[t] = 0

\* the thread t is inside the region the lock of line 43 protects: from the
\* installation of the handler to the release of the lock
InRegion(t) == pc[t] \in {"signal", "alarm", "translate", "finally", "release"} /\ env.sigalrm

\* the remote call of t is running
InRemoteCall(t) == pc[t] = "translate"

\* C7 as stated: at most one call is inside the timeout-bounded region, and
\* every call that performs a remote call holds _timeout_lock meanwhile.
C7_RemoteCallHoldsLock ==
  /\ Cardinality({t \in Threads : InRegion(t)}) <= 1
  /\ \A t \in Threads : InRemoteCall(t) => lockHolder = t

\* C7 amended: at most one call is inside the timeout-bounded region; where
\* the platform has SIGALRM every call that performs a remote call holds
\* _timeout_lock meanwhile and the alarm is pending only for the holder of
\* the lock; where it has none the remote calls run with the lock never taken
\* and no alarm set.
C7_RemoteCallHoldsLockWithAlarm ==
  /\ Cardinality({t \in Threads : InRegion(t)}) <= 1
  /\ \A t \in Threads : InRegion(t) => lockHolder = t
  /\ env.sigalrm => \A t \in Threads : InRemoteCall(t) => lockHolder = t
  /\ alarm > 0 => (lockHolder # 0 /\ armedBy[1] = lockHolder)
  /\ ~env.sigalrm => (lockHolder = 0 /\ alarm = 0 /\ ~handler)

\* one call runs its remote call with the alarm pending while another waits
\* for the lock
C7_Witness ==
  \E t, u \in Threads :
    /\ t # u
    /\ InRemoteCall(t) /\ lockHolder = t /\ alarm > 0
    /\ pc[u] = "time_limit"

\* the text the call of t has to return, from its own argument and from what
\* the translator did for it
OwnResult(t) ==
  IF english_text[t] = <<>> \/ HoldsGujarati(english_text[t]) THEN english_text[t]
  ELSE IF ~RemoteFailed(t) /\ translated_text[t] # None
    THEN Processed(HasWholeWord(Vadhel, english_text[t]), translated_text[t])
    ELSE DictionaryFallback(english_text[t])

C9_GujaratiOrPassthrough ==
  \A t \in Threads :
    (Returned(t) /\ english_text[t] # <<>>)
      => (HoldsGujarati(ret[t]) \/ ret[t] = english_text[t])

\* the running call of t has left the remote step for the dictionary fallback
InFallback(t) ==
  \/ pc[t] = "fallback"
  \/ Returned(t) /\ \E i \in 1..Len(log[t]) : log[t][i] = "fallback"

\* the failure kinds a log entry can record
KindEntries == {"timed out", "failed"}

\* C10 as stated: before the fallback starts the log of the call holds an
\* entry with the failure kind, for a timeout, an exception and an empty
\* result alike, and a timeout is logged as a timeout.
C10_EveryFallbackLogsKind ==
  \A t \in Threads :
    InFallback(t)
      => /\ Len(log[t]) >= 1 /\ log[t][1] \in KindEntries
         /\ exc[t] = "Timeout" => log[t][1] = "timed out"

\* C10 amended: a fallback caused by a timeout or by another exception is
\* preceded by a log entry with the failure kind, "timed out" for a timeout
\* and "failed" for any other exception; a fallback caused by an empty or
\* null remote result is preceded by no entry with a failure kind.
C10_ExceptionFallbackLogsKind ==
  \A t \in Threads :
    InFallback(t)
      => /\ exc[t] = "Timeout" => (Len(log[t]) >= 1 /\ log[t][1] = "timed out")
         /\ exc[t] = "Error" => (Len(log[t]) >= 1 /\ log[t][1] = "failed")
         /\ exc[t] = "none" => \A i \in 1..Len(log[t]) : log[t][i] \notin KindEntries

\* a timeout has been logged and the fallback is about to start
C10_Witness ==
  \E t \in Threads :
    pc[t] = "fallback" /\ exc[t] = "Timeout" /\ log[t] = <<"timed out">>

\* the document has been written out
Generated == pdfPc = "done"

\* the name drawn once at the position, and nothing else
OneOverlay(position) == <<[text |-> gujarati_name, position |-> position]>>

\* the output holds the pages of the template in their order, as many as the
\* template has
SamePagesInOrder ==
  /\ Len(pdf_writer) = Len(pages)
  /\ \A i \in 1..Len(pdf_writer) : pdf_writer[i].orig = i

\* C11 as stated: the name is overlaid on exactly two pages, page 1 and page
\* 4, once each, every other page is unmodified, and the output holds all
\* pages of the template in the original order.
C11_TwoPagesOverlaid ==
  Generated
    => /\ SamePagesInOrder
       /\ {i \in 1..Len(pdf_writer) : pdf_writer[i].overlays # <<>>} = {1, 4}
       /\ \A i \in 1..Len(pdf_writer) :
            /\ i = 1 => pdf_writer[i].overlays = OneOverlay(PAGE_1_POSITION)
            /\ i = 4 => pdf_writer[i].overlays = OneOverlay(PAGE_4_POSITION)

\* C11 amended: the name is overlaid once on page 1 and once on page 4, on
\* those of the two that the template has (both when it has four pages or
\* more, page 1 alone when it has one to three, none when it is empty);
\* every other page is unmodified, and the output holds all pages of the
\* template in the original order.
C11_Page1AndPage4Overlaid ==
  Generated
    => /\ SamePagesInOrder
       /\ \A i \in 1..Len(pdf_writer) :
            pdf_writer[i].overlays =
              IF i = 1 THEN OneOverlay(PAGE_1_POSITION)
              ELSE IF i = 4 THEN OneOverlay(PAGE_4_POSITION)
              ELSE <<>>

\* a template of more than four pages has been written out with the name on
\* pages 1 and 4 only
C11_Witness ==
  /\ Generated
  /\ Len(pdf_writer) > 4
  /\ {i \in 1..Len(pdf_writer) : pdf_writer[i].overlays # <<>>} = {1, 4}

\* the running call of t got past the guards of lines 198-203
NeedsTranslation(t) ==
  calls[t] > 0 /\ english_text[t] # <<>> /\ ~HoldsGujarati(english_text[t])

\* C12: a call whose argument is non-empty and holds no Gujarati character
\* attempts the remote translation exactly once, in whichever thread it
\* runs, and enters the dictionary fallback only after that attempt failed or
\* returned nothing; a non-empty remote result is returned without the
\* dictionary being consulted.
C12_RemoteAttemptedOnce ==
  \A t \in Threads :
    NeedsTranslation(t)
      => /\ remoteCalls[t] <= 1
         /\ (InFallback(t) \/ Returned(t)) => remoteCalls[t] = 1
         /\ InFallback(t) => (RemoteFailed(t) \/ translated_text[t] = None)
         /\ (Returned(t) /\ ~RemoteFailed(t) /\ translated_text[t] # None)
              => (log[t] = <<>> /\ ret[t] = Processed(has_vadhel[t], translated_text[t]))

\* the call of t is running
Running(t) == pc[t] \notin {"idle", "done", "raised"}

\* C13: on a platform with SIGALRM, under fair scheduling, every call
\* eventually returns even when the remote call never answers, and
\* _timeout_lock, once taken, is eventually released, so that no call waits
\* for it forever.
C13_EveryCallReturns ==
  /\ \A t \in Threads : (env.sigalrm /\ Running(t)) ~> Returned(t)
  /\ (env.sigalrm /\ lockHolder # 0) ~> (lockHolder = 0)

\* the remote call of the main thread was ended by the alarm, the lock is
\* free again, and the main thread and another thread have both returned
C13_Witness ==
  /\ env.sigalrm
  /\ raisedAt = "translate"
  /\ lockHolder = 0
  /\ Returned(MainThread) /\ exc[MainThread] = "Timeout"
  /\ \E u \in Threads : u # MainThread /\ Returned(u) /\ exc[u] = "Error"

\* the call that armed the alarm last is still inside the region
ArmerInRegion ==
  /\ armedBy[1] \in Threads
  /\ InRegion(armedBy[1])
  /\ calls[armedBy[1]] = armedBy[2]

\* C14: the alarm is cancelled on every way out of the timeout-bounded region
\* before _timeout_lock is released: whenever the lock is free no alarm is
\* pending and no SIGALRM awaits its handler, and an alarm is pending or
\* delivered only while the call that armed it is still inside the region.
C14_FreeLockNoAlarm ==
  /\ lockHolder = 0 => (alarm = 0 /\ ~sigPending)
  /\ (alarm > 0 \/ sigPending) => ArmerInRegion

\* the remote call of the main thread raised with the alarm armed, the region
\* has been left, and the lock is free with no alarm pending
C14_Witness ==
  /\ env.sigalrm
  /\ armedBy = <<MainThread, calls[MainThread]>>
  /\ exc[MainThread] = "Error" /\ remoteCalls[MainThread] = 1
  /\ ~InRegion(MainThread)
  /\ lockHolder = 0 /\ alarm = 0

====
